---- MODULE Spec2Model ----
(***************************************************************************)
(* A model of gempy's functional front end (gempy/core/gempy_front.py).    *)
(*                                                                         *)
(* The front end is a set of free functions over one Model object.  The   *)
(* functions are translated one by one from gempy_front.py.  The classes  *)
(* they forward to (Series, Formations, Faults, Interfaces, Orientations, *)
(* GridClass, AdditionalData, Interpolator, Solution: gempy.core.model    *)
(* and gempy.core.data) are not part of gempy_front.py; their methods are *)
(* modelled from the design document (spec.md, sections 3 and 4) and are  *)
(* grouped in the sections headed "data layer".                            *)
(*                                                                         *)
(* Every front-end call is one atomic action (the program is single       *)
(* threaded and synchronous).  A call that raises leaves the state that   *)
(* the statements before the raise have produced.                          *)
(***************************************************************************)
EXTENDS Integers, Sequences, FiniteSets, TLC

VARIABLES
    model,      \* the Model object and everything it owns
    call,       \* the front-end call that produced this state, and how it ended
    earlier,    \* the Solution reference the caller got from the previous solve
    latest      \* the Solution reference the caller got from the last solve

vars == <<model, call, earlier, latest>>

(***************************************************************************)
(* Bounds of the model.                                                    *)
(***************************************************************************)
\* rows an observation table may hold (appends beyond it are not explored)
MaxRows == 6
\* index rows of a 2D indices_array of set_orientation_from_interfaces
MaxBatch == 2
\* front-end calls explored after init_data, taxonomy specification
MaxCallsTaxonomy == 3
\* front-end calls explored after init_data, pipeline specification
MaxCallsPipeline == 4
\* front-end calls explored after init_data, orientation specification
MaxCallsOrientation == 4
\* front-end calls explored after init_data, formation specification
MaxCallsFormation == 3
\* front-end calls explored after init_data, solver function specification
MaxCallsSolverFunction == 4

(***************************************************************************)
(* Names.                                                                  *)
(***************************************************************************)
Basement == "basement"
DefaultSeries == "Default series"
\* NaN / missing value of a derived column
NoSeries == "nan"
NoRank == 0
NoId == 0
\* None given for an optional list argument
None == <<"None">>
\* None given for an optional array of numbers
NoneArray == <<-1>>

\* ---------------------------------------------------------------------
\* Sequence helpers
\* ---------------------------------------------------------------------
Range(s) == {s[i] : i \in DOMAIN s}

IndexOf(s, x) == IF x \in Range(s) THEN CHOOSE i \in DOMAIN s : s[i] = x ELSE 0

RECURSIVE Unique(_)
\* pandas unique(): the distinct values in order of first appearance
Unique(s) ==
    IF s = <<>> THEN <<>>
    ELSE LET r == Unique(SubSeq(s, 1, Len(s) - 1))
             x == s[Len(s)]
         IN IF x \in Range(r) THEN r ELSE Append(r, x)

MinOf(S) == CHOOSE x \in S : \A y \in S : x <= y

\* ---------------------------------------------------------------------
\* Results of a call in progress: the model so far, the error raised (if
\* any), the pipeline states entered, the number of solver invocations,
\* the solver input built and the pipeline steps run, in the order they ran.
\* ---------------------------------------------------------------------
Run(m) == [m |-> m, err |-> "none", trace |-> <<m.pipeline>>, solver |-> 0,
           stored |-> FALSE, input |-> <<>>, steps |-> <<>>]

\* a pipeline step has run
Step(r, name) == [r EXCEPT !.steps = Append(@, name)]

Raise(r, e) == [r EXCEPT !.err = e]

\* a statement runs only if no earlier statement of the call has raised
Then(r, F(_)) == IF r.err # "none" THEN r ELSE F(r)

\* the pipeline (spec.md 4.5) enters state p
Goto(r, p) ==
    IF r.m.pipeline = p THEN r
    ELSE [r EXCEPT !.m.pipeline = p, !.trace = Append(@, p)]

\* a step that is the transition from -> to of the pipeline
Advance(r, from, to) == IF r.m.pipeline \in from THEN Goto(r, to) ELSE r

\* a mutation of taxonomy, observations or grid: back to DataLoaded
Invalidate(r) ==
    IF r.m.pipeline = "Uninitialized" THEN r
    ELSE Goto([r EXCEPT !.m.dirty = TRUE], "DataLoaded")

(***************************************************************************)
(* Data layer: taxonomy registry (Series, Formations, Faults).             *)
(* spec.md 3 and 4.1.                                                      *)
(***************************************************************************)

\* Formations: one entry of the registry
FormationEntry(name, id, series, value) ==
    [name |-> name, id |-> id, series |-> series, value |-> value]

FormationNamesOf(fs) == {fs[i].name : i \in DOMAIN fs}

EntryOf(fs, f) == fs[CHOOSE i \in DOMAIN fs : fs[i].name = f]

\* Series rank: position in the catalog (NaN for a series not in it)
RankOf(series, s) == IF s \in Range(series) THEN IndexOf(series, s) ELSE NoRank

\* Series.set_series_categories(series_distribution, order): replaces the
\* catalog by the keys of the distribution, in `order` if one is given.
\* A distribution is a sequence of <<series, formations>> pairs (an ordered
\* dict).
DistKeys(dist) == [i \in DOMAIN dist |-> dist[i][1]]

series_set_series_categories(r, dist, order) ==
    LET keys == DistKeys(dist)
    IN IF order = None THEN [r EXCEPT !.m.series = keys]
       ELSE IF Range(order) # Range(keys) \/ Len(order) # Len(keys)
            THEN Raise(r, "InvalidOrderError")
            ELSE [r EXCEPT !.m.series = order]

\* Series.add_basement()
series_add_basement(r) ==
    IF Basement \in Range(r.m.series) THEN Raise(r, "AssertionError")
    ELSE [r EXCEPT !.m.series = Append(@, Basement)]

\* Formations.set_formation_names(interfaces): the registry holds the
\* formations of the interface rows, in order of first appearance
formations_set_formation_names(r) ==
    LET names == Unique([i \in DOMAIN r.m.interfaces |-> r.m.interfaces[i].formation])
    IN [r EXCEPT !.m.formations =
            [i \in DOMAIN names |-> FormationEntry(names[i], NoId, DefaultSeries, 0)]]

\* Formations.set_id(): dense ids 1..N in the registry's order
formations_set_id(r) ==
    LET fs == r.m.formations
    IN [r EXCEPT !.m.formations = [i \in DOMAIN fs |-> [fs[i] EXCEPT !.id = i]]]

\* Formations.set_formation_order(order): the entries in the given order,
\* with dense ids 1..N in that order; what else an entry holds stays with
\* its name (spec.md 4.1)
formations_set_formation_order(r, order) ==
    LET fs == r.m.formations
    IN IF Range(order) # FormationNamesOf(fs) \/ Len(order) # Len(fs)
       THEN Raise(r, "UnknownFormationError")
       ELSE [r EXCEPT !.m.formations =
                [i \in DOMAIN order |-> [EntryOf(fs, order[i]) EXCEPT !.id = i]]]

\* Formations.set_formations_values(values_array, formation_order,
\* properties_names): the given order, dense ids, and the values
formations_set_formations_values(r, values, order) ==
    LET r1 == formations_set_formation_order(r, order)
        r2 == Then(r1, formations_set_id)
    IN Then(r2, LAMBDA x :
            [x EXCEPT !.m.formations =
                [i \in DOMAIN x.m.formations |->
                    [x.m.formations[i] EXCEPT !.value = values[i]]]])

\* Formations.add_basement()
formations_add_basement(r) ==
    IF Basement \in FormationNamesOf(r.m.formations) THEN Raise(r, "AssertionError")
    ELSE [r EXCEPT !.m.formations =
            Append(@, FormationEntry(Basement, Len(@) + 1, Basement, 0))]

\* Formations.map_series(series_distribution): each formation named in the
\* distribution becomes a member of the series that lists it
SeriesIn(dist, f) ==
    IF \E i \in DOMAIN dist : f \in dist[i][2]
    THEN dist[CHOOSE i \in DOMAIN dist : f \in dist[i][2]][1]
    ELSE NoSeries

formations_map_series(r, dist) ==
    LET fs == r.m.formations
    IN [r EXCEPT !.m.formations =
        [i \in DOMAIN fs |->
            IF SeriesIn(dist, fs[i].name) = NoSeries THEN fs[i]
            ELSE [fs[i] EXCEPT !.series = SeriesIn(dist, fs[i].name)]]]

\* Faults.set_is_fault(): by default the series whose name holds "fault"
IsFaultName(s) == s = "fault"

\* the relation matrix (Series x Series) of Faults: the series that index
\* its rows and columns, and the pairs whose entry is 1 (every other entry
\* is 0, no relation)
RelationMatrix(index, rel) == [index |-> index, rel |-> rel]

\* the matrix reindexed to a series list: entries of removed series are
\* dropped, entries of added series are 0
Reindexed(matrix, series) ==
    RelationMatrix(series, {p \in matrix.rel : p[1] \in Range(series) /\ p[2] \in Range(series)})

faults_set_is_fault(r) ==
    [r EXCEPT !.m.faults = {s \in Range(r.m.series) : IsFaultName(s)},
              !.m.fault_relations = Reindexed(@, r.m.series)]

(***************************************************************************)
(* Data layer: observation store (Interfaces, Orientations).               *)
(* spec.md 3 and 4.2.  A row holds its coordinate X, its formation         *)
(* reference and the derived columns id, series, order_series, isFault.    *)
(***************************************************************************)

\* a row as it is read or added: the derived columns are not mapped yet
Row(X, formation) ==
    [X |-> X, formation |-> formation, id |-> NoId, series |-> NoSeries,
     order_series |-> NoRank, isFault |-> FALSE]

Dangling(rows, fs) == \E i \in DOMAIN rows : rows[i].formation \notin FormationNamesOf(fs)

\* map_data_from_formations(formations, 'id')
MapId(rows, fs) ==
    [i \in DOMAIN rows |-> [rows[i] EXCEPT !.id = EntryOf(fs, rows[i].formation).id]]

\* map_data_from_formations(formations, 'series')
MapSeries(rows, fs) ==
    [i \in DOMAIN rows |-> [rows[i] EXCEPT !.series = EntryOf(fs, rows[i].formation).series]]

\* map_data_from_series(series, 'order_series'): from the row's series column
MapOrderSeries(rows, series) ==
    [i \in DOMAIN rows |-> [rows[i] EXCEPT !.order_series = RankOf(series, rows[i].series)]]

\* map_data_from_faults(faults): from the row's series column
MapFaults(rows, faults) ==
    [i \in DOMAIN rows |-> [rows[i] EXCEPT !.isFault = (rows[i].series \in faults)]]

interfaces_map_data_from_formations(r, fs, attr) ==
    IF Dangling(r.m.interfaces, fs) THEN Raise(r, "DanglingReferenceError")
    ELSE [r EXCEPT !.m.interfaces =
            IF attr = "id" THEN MapId(@, fs) ELSE MapSeries(@, fs)]

orientations_map_data_from_formations(r, fs, attr) ==
    IF Dangling(r.m.orientations, fs) THEN Raise(r, "DanglingReferenceError")
    ELSE [r EXCEPT !.m.orientations =
            IF attr = "id" THEN MapId(@, fs) ELSE MapSeries(@, fs)]

interfaces_map_data_from_series(r, series) ==
    [r EXCEPT !.m.interfaces = MapOrderSeries(@, series)]

orientations_map_data_from_series(r, series) ==
    [r EXCEPT !.m.orientations = MapOrderSeries(@, series)]

interfaces_map_data_from_faults(r, faults) ==
    [r EXCEPT !.m.interfaces = MapFaults(@, faults)]

orientations_map_data_from_faults(r, faults) ==
    [r EXCEPT !.m.orientations = MapFaults(@, faults)]

\* sort_table(): stable sort by (order_series, id), insertion sort
RowLE(a, b) ==
    \/ a.order_series < b.order_series
    \/ a.order_series = b.order_series /\ a.id <= b.id

RECURSIVE InsertRow(_, _)
InsertRow(sorted, x) ==
    IF sorted = <<>> THEN <<x>>
    ELSE IF RowLE(sorted[Len(sorted)], x) THEN Append(sorted, x)
    ELSE Append(InsertRow(SubSeq(sorted, 1, Len(sorted) - 1), x), sorted[Len(sorted)])

RECURSIVE SortTable(_)
SortTable(rows) ==
    IF rows = <<>> THEN <<>>
    ELSE InsertRow(SortTable(SubSeq(rows, 1, Len(rows) - 1)), rows[Len(rows)])

interfaces_sort_table(r) ==
    Step([r EXCEPT !.m.interfaces = SortTable(@)], "sort_interfaces")

orientations_sort_table(r) ==
    Step([r EXCEPT !.m.orientations = SortTable(@)], "sort_orientations")

\* Model.set_interfaces(df, append) / Model.set_orientations(df, append):
\* the rows replace the table or are appended to it; foreign keys are not
\* validated and not mapped
model_set_interfaces(r, df, append) ==
    Invalidate([r EXCEPT !.m.interfaces = IF append THEN @ \o df ELSE df])

model_set_orientations(r, df, append) ==
    Invalidate([r EXCEPT !.m.orientations = IF append THEN @ \o df ELSE df])

\* Model.create_orientation_from_interfaces(indices): the plane through the
\* points; of its parameters the model keeps the position (the first point's)
model_create_orientation_from_interfaces(r, indices) ==
    r.m.interfaces[MinOf(indices)].X

\* Model.add_orientation(X, ..., formation): one new row
model_add_orientation(r, X, form) ==
    Invalidate([r EXCEPT !.m.orientations = Append(@, Row(X, form))])

(***************************************************************************)
(* Data layer: grid, rescaling, additional data, interpolator, solution.   *)
(* spec.md 3, 4.3, 4.4, 4.5 and 6.  Coordinates are one-dimensional        *)
(* integers: a regular grid spreads resolution[1]*resolution[2]*           *)
(* resolution[3] points over its extent, a custom grid holds the points    *)
(* it is given.                                                            *)
(***************************************************************************)

\* GridClass(grid_type='regular_grid', extent, resolution)
RegularGrid(extent, resolution) ==
    LET n == resolution[1] * resolution[2] * resolution[3]
    IN [grid_type |-> "regular_grid", extent |-> extent, resolution |-> resolution,
        values |-> [k \in 1..n |->
                      IF n = 1 THEN extent[1]
                      ELSE extent[1] + ((extent[2] - extent[1]) * (k - 1)) \div (n - 1)]]

\* GridClass(grid_type='custom_grid', custom_grid=points)
CustomGrid(points) ==
    [grid_type |-> "custom_grid", extent |-> <<>>, resolution |-> <<>>,
     values |-> points]

\* Model.set_grid(grid)
model_set_grid(r, grid) == Invalidate([r EXCEPT !.m.grid = grid])

\* the combined point cloud: interfaces, orientations and grid
Cloud(m) ==
    {m.interfaces[i].X : i \in DOMAIN m.interfaces}
        \cup {m.orientations[i].X : i \in DOMAIN m.orientations}
        \cup Range(m.grid.values)

MaxOf(S) == CHOOSE x \in S : \A y \in S : y <= x

DefaultFactor(m) == IF Cloud(m) = {} THEN 0 ELSE MaxOf(Cloud(m)) - MinOf(Cloud(m))

DefaultCenters(m) == IF Cloud(m) = {} THEN 0 ELSE (MaxOf(Cloud(m)) + MinOf(Cloud(m))) \div 2

\* Rescaling.rescale_data(rescaling_factor=None, centers=None); a factor or
\* centers of -1 stands for None
rescaling_rescale_data(r, factor, centers) ==
    LET f == IF factor = -1 THEN DefaultFactor(r.m) ELSE factor
        c == IF centers = -1 THEN DefaultCenters(r.m) ELSE centers
        r1 == Step([r EXCEPT !.m.rescaling = [factor |-> f, centers |-> c]], "rescale")
    IN IF r.m.pipeline = "Uninitialized" THEN r1 ELSE Goto(r1, "Normalized")

\* the interface points each formation that has any holds, by formation id
\* order of first appearance in the table
CountOf(rows, f) == Cardinality({i \in DOMAIN rows : rows[i].formation = f})

LenFormationsI(rows) ==
    LET fs == Unique([i \in DOMAIN rows |-> rows[i].formation])
    IN [k \in DOMAIN fs |-> CountOf(rows, fs[k])]

\* AdditionalData.update_structure(): the counts are derived again; the
\* pipeline enters StructureValid when every count is at least 2
additional_data_update_structure(r) ==
    LET len == LenFormationsI(r.m.interfaces)
        r1 == Step([r EXCEPT !.m.additional_data.len_formations_i = len], "structure")
    IN IF \A k \in DOMAIN len : len[k] > 1
       THEN Advance(r1, {"Normalized"}, "StructureValid")
       ELSE r1

\* AdditionalData.update_rescaling_data()
additional_data_update_rescaling_data(r) ==
    [r EXCEPT !.m.additional_data.rescaling = r.m.rescaling]

\* AdditionalData.update_default_kriging(): the default range follows the
\* rescaled extent
additional_data_update_default_kriging(r) ==
    Step([r EXCEPT !.m.additional_data.kriging = r.m.rescaling.factor], "kriging")

\* Interpolator.create_theano_graph(): the graph of the current options
interpolator_create_theano_graph(r) ==
    [built |-> TRUE, output |-> r.m.additional_data.options.output]

\* Interpolator.set_theano_graph(graph): a function compiled earlier is not a
\* function of this graph
interpolator_set_theano_graph(r, graph) ==
    Advance(Step([r EXCEPT !.m.interpolator.graph = graph,
                           !.m.interpolator.shared = FALSE,
                           !.m.interpolator.fn_current = FALSE], "graph"),
            {"StructureValid"}, "GraphBuilt")

\* Interpolator.set_theano_shared_parameters()
interpolator_set_theano_shared_parameters(r) ==
    Step([r EXCEPT !.m.interpolator.shared = TRUE], "shared")

\* Interpolator.compile_th_fn(inplace=True)
interpolator_compile_th_fn(r) ==
    Advance(Step([r EXCEPT !.m.interpolator.theano_function = "function",
                           !.m.interpolator.fn_current = TRUE], "compile"),
            {"GraphBuilt"}, "Compiled")

\* Interpolator.get_input_matrix(): the ordered observation arrays with
\* their foreign keys, the structure, rescaling and kriging parameters of
\* the additional data, and the coordinates of the grid
interpolator_get_input_matrix(m) ==
    [interfaces |-> m.interfaces, orientations |-> m.orientations,
     additional_data |-> m.additional_data, grid |-> m.grid.values]

\* the solver's output for an input: one value per grid coordinate, and
\* determined by the input (a deterministic solver)
Solve(i) == [n |-> Len(i.grid), of |-> i]

\* Interpolator.theano_function(*i): the external solver; it may fail.
\* An interpolator without the attribute has nothing to look up, and None
\* is not callable
interpolator_theano_function(r, i, ok) ==
    IF r.m.interpolator.theano_function = "absent" THEN Raise(r, "AttributeError")
    ELSE IF r.m.interpolator.theano_function = "None" THEN Raise(r, "TypeError")
    ELSE IF ~ok THEN Raise(Step([r EXCEPT !.solver = @ + 1], "solver"), "SolverError")
    ELSE Step([r EXCEPT !.solver = @ + 1], "solver")

\* Solution.set_values(sol, compute_mesh): the Solution object of the model
\* takes the values of this solve, all of them at once
solutions_set_values(r, sol, compute_mesh) ==
    Advance(Step([r EXCEPT !.m.solutions.values = <<sol>>,
                           !.m.solutions.mesh = compute_mesh,
                           !.m.was_solved = @ \/ r.m.pipeline \in {"Compiled", "Solved"},
                           !.stored = TRUE], "store"),
            {"Compiled", "Solved"}, "Solved")

\* Model(project_name): the empty model
create_model ==
    [pipeline |-> "Uninitialized", dirty |-> FALSE, was_solved |-> FALSE,
     series |-> <<DefaultSeries>>, formations |-> <<>>, faults |-> {},
     fault_relations |-> RelationMatrix(<<DefaultSeries>>, {}),
     interfaces |-> <<>>, orientations |-> <<>>,
     grid |-> RegularGrid(<<0, 0>>, <<0, 0, 0>>),
     rescaling |-> [factor |-> 0, centers |-> 0],
     additional_data |-> [len_formations_i |-> <<>>,
                          rescaling |-> [factor |-> 0, centers |-> 0],
                          kriging |-> 0,
                          options |-> [output |-> "geology",
                                       theano_optimizer |-> "fast_compile"]],
     interpolator |-> [graph |-> [built |-> FALSE, output |-> "geology"],
                       shared |-> FALSE, theano_function |-> "None",
                       fn_current |-> FALSE],
     solutions |-> [oid |-> 1, values |-> <<>>, mesh |-> FALSE]]

(***************************************************************************)
(* Model.update_df(): the tables are brought up to date with the           *)
(* registry (the derived columns of both are mapped again).                *)
(***************************************************************************)
model_update_df(r) ==
    LET fs == r.m.formations
    IN IF Dangling(r.m.interfaces, fs) \/ Dangling(r.m.orientations, fs)
       THEN Raise(r, "DanglingReferenceError")
       ELSE [r EXCEPT
              !.m.interfaces =
                 MapFaults(MapOrderSeries(MapSeries(MapId(@, fs), fs), r.m.series), r.m.faults),
              !.m.orientations =
                 MapFaults(MapOrderSeries(MapSeries(MapId(@, fs), fs), r.m.series), r.m.faults)]

(***************************************************************************)
(* The front end: gempy_front.py, function by function.  Each operator     *)
(* takes the call in progress and returns it after the function's          *)
(* statements.                                                             *)
(***************************************************************************)

\* update_additional_data(model, update_structure, update_rescaling, update_kriging)
update_additional_data(r, update_structure, update_rescaling, update_kriging) ==
    LET r1 == IF update_structure THEN Then(r, additional_data_update_structure) ELSE r
        r2 == IF update_rescaling THEN Then(r1, additional_data_update_rescaling_data) ELSE r1
    IN IF update_kriging THEN Then(r2, additional_data_update_default_kriging) ELSE r2

\* map_to_data with the rank of the series mapped before the series column
\* is (order_series derived from the previous series column)
map_to_data_RankFirst(r, series, formations, faults) ==
    LET fs == r.m.formations
        r1 == IF series
              THEN LET a == Then(r, LAMBDA x : interfaces_map_data_from_series(x, x.m.series))
                   IN Then(a, LAMBDA x : orientations_map_data_from_series(x, x.m.series))
              ELSE r
        r2 == IF formations
              THEN LET a == Then(r1, LAMBDA x : interfaces_map_data_from_formations(x, fs, "id"))
                       b == Then(a, LAMBDA x : orientations_map_data_from_formations(x, fs, "id"))
                       c == Then(b, LAMBDA x : interfaces_map_data_from_formations(x, fs, "series"))
                   IN Then(c, LAMBDA x : orientations_map_data_from_formations(x, fs, "series"))
              ELSE r1
    IN IF faults
       THEN LET a == Then(r2, LAMBDA x : interfaces_map_data_from_faults(x, x.m.faults))
            IN Then(a, LAMBDA x : orientations_map_data_from_faults(x, x.m.faults))
       ELSE r2

\* map_to_data(model, series, formations, faults): an argument left out is
\* None (FALSE here); an argument given is the model's own registry
map_to_data(r, series, formations, faults) ==
    LET fs == r.m.formations
        r1 == IF formations
              THEN LET a == Then(r, LAMBDA x : interfaces_map_data_from_formations(x, fs, "id"))
                       b == Then(a, LAMBDA x : orientations_map_data_from_formations(x, fs, "id"))
                       c == Then(b, LAMBDA x : interfaces_map_data_from_formations(x, fs, "series"))
                   IN Then(c, LAMBDA x : orientations_map_data_from_formations(x, fs, "series"))
              ELSE r
        r2 == IF series
              THEN LET a == Then(r1, LAMBDA x : interfaces_map_data_from_series(x, x.m.series))
                   IN Then(a, LAMBDA x : orientations_map_data_from_series(x, x.m.series))
              ELSE r1
    IN IF faults
       THEN LET a == Then(r2, LAMBDA x : interfaces_map_data_from_faults(x, x.m.faults))
            IN Then(a, LAMBDA x : orientations_map_data_from_faults(x, x.m.faults))
       ELSE r2

\* the try block without the except clause: the AssertionError of
\* add_basement leaves the call
AddBasements_NotCaught(r) == Then(formations_add_basement(r), series_add_basement)

\* the try block of set_values_to_default: an AssertionError of either
\* add_basement is caught, and what ran before it stays
AddBasements(r) ==
    LET a == formations_add_basement(r)
        b == Then(a, series_add_basement)
    IN IF a.err = "AssertionError" THEN r
       ELSE IF b.err = "AssertionError" THEN a
       ELSE b

\* set_values_to_default(model, series_distribution, order_series,
\*     order_formations, set_faults, map_formations_from_series,
\*     call_map_to_data); a series_distribution of <<>> is None
set_values_to_default(r, series_distribution, order_formations, set_faults, map_formations_from_series, call_map_to_data) ==
    LET r1 == IF series_distribution # <<>>
              THEN Then(r, LAMBDA x : Invalidate(formations_map_series(x, series_distribution)))
              ELSE r
        r2 == IF set_faults THEN Then(r1, LAMBDA x : Invalidate(faults_set_is_fault(x))) ELSE r1
        r3 == IF map_formations_from_series
              THEN Then(Then(r2, LAMBDA x : Invalidate(formations_set_id(x))), AddBasements)
              ELSE r2
        r4 == IF order_formations # None
              THEN Then(r3, LAMBDA x : Invalidate(formations_set_formation_order(x, order_formations)))
              ELSE r3
    IN IF call_map_to_data
       THEN Then(r4, LAMBDA x : map_to_data(x, TRUE, TRUE, TRUE))
       ELSE r4

\* set_series that updates the additional data also when an earlier
\* statement has raised
set_series_UpdatesAnyway(r, series_distribution, order_series, order_formations, values_to_default) ==
    LET r1 == Then(r, LAMBDA x :
                  Invalidate(series_set_series_categories(x, series_distribution, order_series)))
        r2 == IF values_to_default
              THEN Then(r1, LAMBDA x : set_values_to_default(x, <<>>, None, TRUE, TRUE, TRUE))
              ELSE r1
    IN [update_additional_data([r2 EXCEPT !.err = "none"], TRUE, TRUE, TRUE) EXCEPT !.err = r2.err]

\* set_series(model, series_distribution, order_series, order_formations,
\*     values_to_default)
set_series(r, series_distribution, order_series, order_formations, values_to_default) ==
    LET r1 == Then(r, LAMBDA x :
                  Invalidate(series_set_series_categories(x, series_distribution, order_series)))
        r2 == IF values_to_default
              THEN Then(r1, LAMBDA x : set_values_to_default(x, <<>>, None, TRUE, TRUE, TRUE))
              ELSE r1
    IN Then(r2, LAMBDA x : update_additional_data(x, TRUE, TRUE, TRUE))

\* Python truth of an optional list: None and the empty list are false
Truthy(l) == l # None /\ l # <<>>

\* set_formations that, given an order without values, stores the default
\* value for every formation
set_formations_ResetsValues(r, formation_names, formations_order, values_array) ==
    LET order == IF Truthy(formation_names) /\ ~Truthy(formations_order)
                 THEN formation_names ELSE formations_order
        values == IF values_array = NoneArray THEN [i \in DOMAIN order |-> 0] ELSE values_array
    IN IF order # None
       THEN Then(r, LAMBDA x : Invalidate(formations_set_formations_values(x, values, order)))
       ELSE r

\* set_formations where formation_names, when given, is the order used
\* (formations_order is not looked at)
set_formations_NamesFirst(r, formation_names, formations_order, values_array) ==
    LET order == IF Truthy(formation_names) THEN formation_names ELSE formations_order
    IN IF order # None /\ values_array # NoneArray
       THEN Then(r, LAMBDA x : Invalidate(formations_set_formations_values(x, values_array, order)))
       ELSE IF order # None
       THEN Then(Then(r, LAMBDA x : Invalidate(formations_set_formation_order(x, order))),
                 formations_set_id)
       ELSE r

\* set_formations(model, formation_names, formations_order, values_array,
\*     properties_names)
set_formations(r, formation_names, formations_order, values_array) ==
    LET order == IF Truthy(formation_names) /\ ~Truthy(formations_order)
                 THEN formation_names ELSE formations_order
    IN IF order # None /\ values_array # NoneArray
       THEN Then(r, LAMBDA x : Invalidate(formations_set_formations_values(x, values_array, order)))
       ELSE IF order # None
       THEN Then(Then(r, LAMBDA x : Invalidate(formations_set_formation_order(x, order))),
                 formations_set_id)
       ELSE r

\* set_faults(model, faults): faults is a Faults object made over the
\* model's series (create_faults(get_series(model), series_fault)), given
\* here by the series it flags
set_faults(r, faults) ==
    Invalidate([r EXCEPT !.m.faults = faults,
                         !.m.fault_relations = RelationMatrix(r.m.series, {})])

\* set_grid(model, grid)
set_grid(r, grid) == model_set_grid(r, grid)

\* set_interfaces(geo_data, interf_dataframe, append)
set_interfaces(r, interf_dataframe, append) == model_set_interfaces(r, interf_dataframe, append)

\* set_orientations(geo_data, orient_dataframe, append)
set_orientations(r, orient_dataframe, append) == model_set_orientations(r, orient_dataframe, append)

\* the formations of the interface rows at the given indices (.loc[indices].unique())
FormsAt(rows, indices) == {rows[i].formation : i \in indices}

\* one index set of set_orientation_from_interfaces: the assertion, the
\* plane fit and add_orientation
OrientationFrom(r, indices) ==
    LET form == FormsAt(r.m.interfaces, indices)
    IN IF Cardinality(form) # 1 THEN Raise(r, "MixedFormationError")
       ELSE model_add_orientation(r, model_create_orientation_from_interfaces(r, indices),
                                  CHOOSE f \in form : TRUE)

RECURSIVE OrientationLoop(_, _)
\* for indices in indices_array: the loop stops at the row that raises
OrientationLoop(r, rows) ==
    IF rows = <<>> \/ r.err # "none" THEN r
    ELSE OrientationLoop(OrientationFrom(r, Head(rows)), Tail(rows))

\* set_orientation_from_interfaces(geo_data, indices_array); indices_array
\* is [ndim |-> 1, rows |-> <<indices>>] or [ndim |-> 2, rows |-> <<indices, ...>>]
set_orientation_from_interfaces(r, indices_array) ==
    LET r1 == IF indices_array.ndim = 1
              THEN Then(r, LAMBDA x : OrientationFrom(x, indices_array.rows[1]))
              ELSE IF indices_array.ndim = 2
              THEN OrientationLoop(r, indices_array.rows)
              ELSE r
    IN Then(r1, model_update_df)

\* rescale_data(model, rescaling_factor, centers)
rescale_data(r, rescaling_factor, centers) ==
    Then(r, LAMBDA x : rescaling_rescale_data(x, rescaling_factor, centers))

\* set_interpolation_data that sorts the interfaces and leaves the
\* orientations as they are
set_interpolation_data_SortsInterfacesOnly(r, compile_theano, output, theano_optimizer) ==
    LET r0 == [r EXCEPT !.m.additional_data.options =
                  [output |-> output, theano_optimizer |-> theano_optimizer]]
        r1 == Then(r0, LAMBDA x : rescaling_rescale_data(x, -1, -1))
        r2 == Then(r1, LAMBDA x : update_additional_data(x, TRUE, TRUE, TRUE))
        r3 == Then(r2, interfaces_sort_table)
        r4 == Then(r3, LAMBDA x : [x EXCEPT !.m.dirty = FALSE])
        r5 == Then(r4, LAMBDA x : interpolator_set_theano_graph(x, interpolator_create_theano_graph(x)))
        r6 == Then(r5, interpolator_set_theano_shared_parameters)
    IN IF compile_theano THEN Then(r6, interpolator_compile_th_fn) ELSE r6

\* set_interpolation_data that compiles before the graph is built and set
set_interpolation_data_CompileFirst(r, compile_theano, output, theano_optimizer) ==
    LET r0 == [r EXCEPT !.m.additional_data.options =
                  [output |-> output, theano_optimizer |-> theano_optimizer]]
        r1 == Then(r0, LAMBDA x : rescaling_rescale_data(x, -1, -1))
        r2 == Then(r1, LAMBDA x : update_additional_data(x, TRUE, TRUE, TRUE))
        r3 == Then(r2, interfaces_sort_table)
        r4 == Then(r3, LAMBDA x : [orientations_sort_table(x) EXCEPT !.m.dirty = FALSE])
        r5 == IF compile_theano THEN Then(r4, interpolator_compile_th_fn) ELSE r4
        r6 == Then(r5, LAMBDA x : interpolator_set_theano_graph(x, interpolator_create_theano_graph(x)))
    IN Then(r6, interpolator_set_theano_shared_parameters)

\* set_interpolation_data(model, inplace, compile_theano, output, theano_optimizer)
set_interpolation_data(r, compile_theano, output, theano_optimizer) ==
    LET r0 == [r EXCEPT !.m.additional_data.options =
                  [output |-> output, theano_optimizer |-> theano_optimizer]]
        r1 == Then(r0, LAMBDA x : rescaling_rescale_data(x, -1, -1))
        r2 == Then(r1, LAMBDA x : update_additional_data(x, TRUE, TRUE, TRUE))
        r3 == Then(r2, interfaces_sort_table)
        r4 == Then(r3, LAMBDA x : [orientations_sort_table(x) EXCEPT !.m.dirty = FALSE])
        r5 == Then(r4, LAMBDA x : interpolator_set_theano_graph(x, interpolator_create_theano_graph(x)))
        r6 == Then(r5, interpolator_set_theano_shared_parameters)
    IN IF compile_theano THEN Then(r6, interpolator_compile_th_fn) ELSE r6

\* get_th_fn(model): the assertion compares getattr(model.interpolator,
\* 'theano_function', False) with None; the return statement reads the
\* attribute itself
get_th_fn(r) ==
    LET attr == r.m.interpolator.theano_function
        got == IF attr = "absent" THEN "False" ELSE attr
    IN IF got = "None" THEN Raise(r, "AssertionError")
       ELSE IF attr = "absent" THEN Raise(r, "AttributeError")
       ELSE r

\* the assertion of compute_model on the structure of the additional data;
\* min() of an empty array raises ValueError
CheckLenFormations(r) ==
    LET len == r.m.additional_data.len_formations_i
    IN IF len = <<>> THEN Raise(r, "ValueError")
       ELSE IF ~(MinOf(Range(len)) > 1) THEN Raise(r, "InsufficientDataError")
       ELSE r

\* compute_model that stores into model.solutions before the solver has
\* returned
compute_model_StoreFirst(r, compute_mesh, solver_ok) ==
    LET i == interpolator_get_input_matrix(r.m)
        r1 == Then(r, LAMBDA x : [x EXCEPT !.input = <<i>>])
        r2 == Then(r1, CheckLenFormations)
        r3 == Then(r2, LAMBDA x : solutions_set_values(x, Solve(i), compute_mesh))
    IN Then(r3, LAMBDA x : interpolator_theano_function(x, i, solver_ok))

\* compute_model that leaves the number of values it computed in the
\* kriging parameters of the additional data
compute_model_LeavesState(r, compute_mesh, solver_ok) ==
    LET i == interpolator_get_input_matrix(r.m)
        r1 == Then(r, LAMBDA x : [x EXCEPT !.input = <<i>>])
        r2 == Then(r1, CheckLenFormations)
        r3 == Then(r2, LAMBDA x : interpolator_theano_function(x, i, solver_ok))
        r4 == Then(r3, LAMBDA x : solutions_set_values(x, Solve(i), compute_mesh))
    IN Then(r4, LAMBDA x : [x EXCEPT !.m.additional_data.kriging = Len(i.grid)])

\* compute_model(model, compute_mesh); solver_ok is whether the external
\* solver, if it is invoked, returns
compute_model(r, compute_mesh, solver_ok) ==
    LET i == interpolator_get_input_matrix(r.m)
        r1 == Then(r, LAMBDA x : Step([x EXCEPT !.input = <<i>>], "input"))
        r2 == Then(r1, CheckLenFormations)
        r3 == Then(r2, LAMBDA x : interpolator_theano_function(x, i, solver_ok))
    IN Then(r3, LAMBDA x : solutions_set_values(x, Solve(i), compute_mesh))

\* compute_model_at(new_grid_array, model)
compute_model_at(r, new_grid_array, solver_ok) ==
    LET r1 == Then(r, LAMBDA x : set_grid(x, CustomGrid(new_grid_array)))
    IN Then(r1, LAMBDA x : compute_model(x, FALSE, solver_ok))

\* read_data(model, path_i, path_o): the tables are read from the files
\* (data is what the files hold)
read_data(r, data) ==
    LET r1 == Goto([r EXCEPT !.m.interfaces = data.interfaces,
                             !.m.orientations = data.orientations], "DataLoaded")
        r2 == Then(r1, formations_set_formation_names)
        r3 == Then(r2, LAMBDA x : rescaling_rescale_data(x, -1, -1))
    IN Then(r3, LAMBDA x : update_additional_data(x, TRUE, TRUE, TRUE))

\* init_data(extent, resolution, project_name, **kwargs)
init_data(extent, resolution, data) ==
    LET r0 == Run(create_model)
        r1 == set_grid(r0, RegularGrid(extent, resolution))
        r2 == Then(r1, LAMBDA x : read_data(x, data))
        r3 == Then(r2, LAMBDA x : set_values_to_default(x, <<>>, None, TRUE, TRUE, TRUE))
    IN Then(r3, LAMBDA x : update_additional_data(x, TRUE, TRUE, TRUE))

(***************************************************************************)
(* The arguments the calls are explored with.                              *)
(***************************************************************************)
Reverse(s) == [i \in DOMAIN s |-> s[Len(s) + 1 - i]]

\* the files read_data reads: three formations with two interface points
\* each, and a model where formation f2 has a single point
DataFull ==
    [interfaces |-> <<Row(10, "f1"), Row(20, "f1"), Row(30, "f2"), Row(40, "f2"),
                      Row(50, "f3"), Row(60, "f3")>>,
     orientations |-> <<Row(15, "f1"), Row(55, "f3")>>]

DataThin ==
    [interfaces |-> <<Row(10, "f1"), Row(20, "f1"), Row(30, "f1"), Row(40, "f2")>>,
     orientations |-> <<Row(15, "f1")>>]

Datasets == {DataFull, DataThin}

\* files whose orientation references a formation no interface row has
DataDangling ==
    [interfaces |-> <<Row(10, "f1"), Row(20, "f1")>>,
     orientations |-> <<Row(15, "fx")>>]

Extents == {<<0, 200>>}
Resolutions == {<<2, 2, 2>>}

\* series_distribution: ordered dicts of series to formations
DistAB == << <<"A", {"f1", "f2"}>>, <<"B", {"f3"}>> >>
DistFault == << <<"fault", {"f3"}>>, <<"A", {"f1", "f2"}>> >>
Distributions == {DistAB, DistFault}

SeriesOrders(dist) == {None, Reverse(DistKeys(dist))}

\* orders of the registered formations
FormationOrder(m) == [i \in DOMAIN m.formations |-> m.formations[i].name]

FormationOrders(m) ==
    LET names == FormationOrder(m)
    IN {Reverse(names)} \cup
       (IF Len(names) >= 2
        THEN {[i \in DOMAIN names |-> IF i = 1 THEN names[2] ELSE IF i = 2 THEN names[1] ELSE names[i]]}
        ELSE {})

\* every order of the registered formations
OrdersOf(names) ==
    {q \in [DOMAIN names -> Range(names)] : Range(q) = Range(names)}

ValuesArrays(m) == {NoneArray, [i \in DOMAIN m.formations |-> 10 * i]}

FaultSets == {{}, {"A"}, {DefaultSeries}}

InterfaceFrames == { <<Row(70, "f1"), Row(80, "f1")>>, <<Row(90, "f2")>>, <<Row(95, "fx")>> }

OrientationFrames == { <<Row(25, "f1")>>, <<Row(35, "f2")>> }

Grids == {RegularGrid(<<0, 100>>, <<1, 1, 2>>), CustomGrid(<<5, 25, 45>>)}

PointArrays == { <<5, 25, 45>>, <<120>> }

\* index sets of three interface rows (rows that follow each other)
IndexSets(m) == {{i, i + 1, i + 2} : i \in 1..(Len(m.interfaces) - 2)}

RECURSIVE SeqsUpTo(_, _)
SeqsUpTo(S, n) ==
    IF n = 0 THEN {<<>>}
    ELSE LET shorter == SeqsUpTo(S, n - 1)
         IN shorter \cup {Append(q, x) : q \in {t \in shorter : Len(t) = n - 1}, x \in S}

IndicesArrays(m) ==
    {[ndim |-> 1, rows |-> <<S>>] : S \in IndexSets(m)}
        \cup {[ndim |-> 2, rows |-> q] : q \in SeqsUpTo(IndexSets(m), MaxBatch) \ {<<>>}}

(***************************************************************************)
(* The calls.  Each action is one front-end call; it leaves in `call` the  *)
(* function called, the error it raised, the pipeline states it entered,   *)
(* the solver invocations it made, whether it stored a Solution and the    *)
(* solver input it built; call.n counts the calls made since init_data.    *)
(* A scope names what a specification explores: the number of calls, the   *)
(* files init_data reads, and the frames and index arrays it passes.       *)
(***************************************************************************)
CallOf(n, op, arg, r) ==
    [n |-> n, op |-> op, arg |-> arg, err |-> r.err, trace |-> r.trace,
     solver |-> r.solver, stored |-> r.stored, input |-> r.input, steps |-> r.steps]

\* the model is created by init_data, which does not touch the
\* interpolator: its theano_function is as the constructor left it (None,
\* or no attribute at all where the scope explores that)
InitIn(scope) ==
    \E extent \in Extents, resolution \in Resolutions, data \in scope.datasets,
       attr \in scope.fresh :
       LET r == init_data(extent, resolution, data)
       IN /\ model = [r.m EXCEPT !.interpolator.theano_function = attr]
          /\ call = CallOf(0, "init_data", <<>>, r)
          /\ earlier = <<>>
          /\ latest = <<>>

\* init_data has returned the model: a caller whose init_data raised holds
\* no model to call anything on
Returned == ~(call.op = "init_data" /\ call.err # "none")

\* the call returns (or raises): the model is as the call left it
Return(scope, op, arg, r) ==
    /\ Returned
    /\ call.n < scope.calls
    /\ Len(r.m.interfaces) <= MaxRows /\ Len(r.m.orientations) <= MaxRows
    /\ model' = r.m
    /\ call' = CallOf(call.n + 1, op, arg, r)
    /\ UNCHANGED <<earlier, latest>>

\* a solve returns model.solutions: a reference to the model's Solution
\* object, which the caller keeps beside what that solve produced
ReturnSolution(scope, op, arg, r) ==
    /\ Returned
    /\ call.n < scope.calls
    /\ model' = r.m
    /\ call' = CallOf(call.n + 1, op, arg, r)
    /\ IF r.err = "none"
       THEN /\ earlier' = latest
            /\ latest' = <<[ref |-> r.m.solutions.oid, own |-> r.m.solutions.values]>>
       ELSE UNCHANGED <<earlier, latest>>

\* where every order is explored, the call record of set_series keeps the
\* order_formations it was given
SetSeries(scope) ==
    \E dist \in scope.distributions, vtd \in BOOLEAN :
    \E order \in IF scope.wide THEN SeriesOrders(dist) ELSE {None},
       order_formations \in IF scope.wide THEN {None, Reverse(FormationOrder(model))} ELSE {None} :
       Return(scope, "set_series",
              IF scope.permute THEN <<vtd, order_formations>> ELSE <<vtd>>,
              set_series(Run(model), dist, order, order_formations, vtd))

\* where every order is explored, the call record of set_formations keeps
\* the arguments and what get_formations gave the caller before the call
SetFormations(scope) ==
    \E names \in IF scope.wide THEN {None, Reverse(FormationOrder(model))} ELSE {None},
       order \in IF scope.permute THEN {None} \cup OrdersOf(FormationOrder(model))
                 ELSE IF scope.wide THEN {None} \cup FormationOrders(model)
                 ELSE {Reverse(FormationOrder(model))},
       values \in IF scope.wide THEN ValuesArrays(model) ELSE {NoneArray} :
       Return(scope, "set_formations",
              IF scope.permute THEN <<names, order, values, model.formations>> ELSE <<>>,
              set_formations(Run(model), names, order, values))

SetFaults(scope) ==
    \E faults \in scope.faults :
       Return(scope, "set_faults", <<>>, set_faults(Run(model), faults))

SetGrid(scope) ==
    \E grid \in Grids : Return(scope, "set_grid", <<>>, set_grid(Run(model), grid))

SetInterfaces(scope) ==
    \E df \in scope.frames, append \in BOOLEAN :
       Return(scope, "set_interfaces", <<>>, set_interfaces(Run(model), df, append))

SetOrientations(scope) ==
    \E df \in scope.oframes, append \in BOOLEAN :
       Return(scope, "set_orientations", <<>>, set_orientations(Run(model), df, append))

SetOrientationFromInterfaces(scope) ==
    \E ia \in {x \in IndicesArrays(model) : x.ndim \in scope.ndims} :
       Return(scope, "set_orientation_from_interfaces", <<ia>>,
              set_orientation_from_interfaces(Run(model), ia))

\* an order that names a formation the registry does not hold
UnknownOrder == <<"f9">>

\* order_formations is explored (a valid order and an unknown one) where
\* the formation registry is the subject, and left at its default elsewhere
SetValuesToDefault(scope) ==
    \E dist \in {<<>>, DistAB},
       order \in IF scope.permute THEN {None, Reverse(FormationOrder(model)), UnknownOrder}
                 ELSE {None},
       sf \in BOOLEAN, mf \in BOOLEAN, cm \in BOOLEAN :
       Return(scope, "set_values_to_default", <<cm, mf, order>>,
              set_values_to_default(Run(model), dist, order, sf, mf, cm))

MapToData(scope) ==
    \E series \in BOOLEAN, formations \in BOOLEAN, faults \in BOOLEAN :
       Return(scope, "map_to_data", <<series, formations, faults>>,
              map_to_data(Run(model), series, formations, faults))

UpdateAdditionalData(scope) ==
    Return(scope, "update_additional_data", <<>>,
           update_additional_data(Run(model), TRUE, TRUE, TRUE))

RescaleData(scope) ==
    \E fc \in {<<-1, -1>>, <<50, 10>>} :
       Return(scope, "rescale_data", <<fc>>, rescale_data(Run(model), fc[1], fc[2]))

SetInterpolationData(scope) ==
    \E compile_theano \in BOOLEAN :
       Return(scope, "set_interpolation_data", <<compile_theano>>,
              set_interpolation_data(Run(model), compile_theano, "geology", "fast_compile"))

ComputeModel(scope) ==
    \E compute_mesh \in BOOLEAN, solver_ok \in BOOLEAN :
       ReturnSolution(scope, "compute_model", <<compute_mesh>>,
                      compute_model(Run(model), compute_mesh, solver_ok))

GetThFn(scope) ==
    Return(scope, "get_th_fn", <<>>, get_th_fn(Run(model)))

ComputeModelAt(scope) ==
    \E points \in PointArrays, solver_ok \in BOOLEAN :
       ReturnSolution(scope, "compute_model_at", <<points>>,
                      compute_model_at(Run(model), points, solver_ok))

(***************************************************************************)
(* Taxonomy and observations: the mutators and the mapping cascade, with   *)
(* the wide choice of arguments.                                           *)
(***************************************************************************)
Taxonomy ==
    [calls |-> MaxCallsTaxonomy, datasets |-> {DataThin, DataDangling}, wide |-> TRUE,
     permute |-> FALSE, fresh |-> {"None"},
     distributions |-> Distributions, faults |-> FaultSets,
     frames |-> InterfaceFrames, oframes |-> OrientationFrames, ndims |-> {1}]

InitTaxonomy == InitIn(Taxonomy)

NextTaxonomy ==
    \/ SetSeries(Taxonomy)
    \/ SetFormations(Taxonomy)
    \/ SetFaults(Taxonomy)
    \/ SetInterfaces(Taxonomy)
    \/ SetOrientations(Taxonomy)
    \/ SetOrientationFromInterfaces(Taxonomy)
    \/ SetValuesToDefault(Taxonomy)
    \/ MapToData(Taxonomy)

SpecTaxonomy == InitTaxonomy /\ [][NextTaxonomy]_vars

(***************************************************************************)
(* The computation pipeline: the solve calls, the steps before them and    *)
(* every mutator, each mutator with one choice of its list arguments.      *)
(***************************************************************************)
Pipeline ==
    [calls |-> MaxCallsPipeline, datasets |-> Datasets, wide |-> FALSE,
     permute |-> FALSE, fresh |-> {"None"},
     distributions |-> {DistAB}, faults |-> {{DefaultSeries}},
     frames |-> {<<Row(90, "f2")>>}, oframes |-> {<<Row(35, "f2")>>}, ndims |-> {1}]

InitPipeline == InitIn(Pipeline)

NextPipeline ==
    \/ SetInterpolationData(Pipeline)
    \/ ComputeModel(Pipeline)
    \/ SetGrid(Pipeline)
    \/ SetInterfaces(Pipeline)
    \/ SetSeries(Pipeline)
    \/ SetFormations(Pipeline)
    \/ SetFaults(Pipeline)
    \/ SetOrientations(Pipeline)
    \/ SetOrientationFromInterfaces(Pipeline)
    \/ UpdateAdditionalData(Pipeline)
    \/ RescaleData(Pipeline)
    \/ ComputeModelAt(Pipeline)

SpecPipeline == InitPipeline /\ [][NextPipeline]_vars

(***************************************************************************)
(* Orientations from interface points: single index sets and batches.      *)
(***************************************************************************)
Orientation ==
    [calls |-> MaxCallsOrientation, datasets |-> {DataThin}, wide |-> FALSE,
     permute |-> FALSE, fresh |-> {"None"},
     distributions |-> {DistAB}, faults |-> {{}},
     frames |-> {<<Row(90, "f2")>>, <<Row(70, "f1"), Row(80, "f1")>>},
     oframes |-> OrientationFrames, ndims |-> {1, 2}]

InitOrientation == InitIn(Orientation)

NextOrientation ==
    \/ SetOrientationFromInterfaces(Orientation)
    \/ SetInterfaces(Orientation)
    \/ SetOrientations(Orientation)
    \/ SetFormations(Orientation)

SpecOrientation == InitOrientation /\ [][NextOrientation]_vars

(***************************************************************************)
(* The solver function: get_th_fn and the solve on interpolators that      *)
(* were never compiled (with the attribute None and without it), compiled  *)
(* and built again.                                                        *)
(***************************************************************************)
SolverFunction ==
    [calls |-> MaxCallsSolverFunction, datasets |-> Datasets, wide |-> FALSE,
     permute |-> FALSE, fresh |-> {"None", "absent"},
     distributions |-> {DistAB}, faults |-> {{}},
     frames |-> {<<Row(90, "f2")>>}, oframes |-> {<<Row(35, "f2")>>}, ndims |-> {1}]

InitSolverFunction == InitIn(SolverFunction)

NextSolverFunction ==
    \/ GetThFn(SolverFunction)
    \/ SetInterpolationData(SolverFunction)
    \/ ComputeModel(SolverFunction)

SpecSolverFunction == InitSolverFunction /\ [][NextSolverFunction]_vars

(***************************************************************************)
(* The formation registry: set_formations with every order of the          *)
(* registered formations, with and without values, between calls that     *)
(* change the registry and the tables in other ways.                       *)
(***************************************************************************)
Formation ==
    [calls |-> MaxCallsFormation, datasets |-> {DataThin}, wide |-> TRUE,
     permute |-> TRUE, fresh |-> {"None"},
     distributions |-> {DistAB}, faults |-> {{}},
     frames |-> {<<Row(95, "fx")>>}, oframes |-> {<<Row(35, "f2")>>}, ndims |-> {1}]

InitFormation == InitIn(Formation)

NextFormation ==
    \/ SetFormations(Formation)
    \/ SetValuesToDefault(Formation)
    \/ SetSeries(Formation)
    \/ SetInterfaces(Formation)

SpecFormation == InitFormation /\ [][NextFormation]_vars

(***************************************************************************)
(* Claims.                                                                 *)
(***************************************************************************)

\* what the registries give for a row's formation
RowConsistent(m, row) ==
    /\ row.formation \in FormationNamesOf(m.formations)
    /\ LET e == EntryOf(m.formations, row.formation)
       IN /\ row.id = e.id
          /\ row.series = e.series
          /\ row.order_series = RankOf(m.series, e.series)
          /\ row.isFault = (e.series \in m.faults)

Consistent(m) ==
    /\ \A i \in DOMAIN m.interfaces : RowConsistent(m, m.interfaces[i])
    /\ \A i \in DOMAIN m.orientations : RowConsistent(m, m.orientations[i])

Mutators == {"set_series", "set_formations", "set_faults", "set_interfaces",
             "set_orientations", "set_orientation_from_interfaces"}

\* C1: immediately after each front-end mutator returns, every row of the
\* interfaces and orientations tables has derived columns (id, series,
\* order_series, fault flag) equal to what the current registries give for
\* the row's formation.
C1_MutatorsLeaveNoStaleKeys ==
    (call.op \in Mutators /\ call.err = "none") => Consistent(model)

\* C2: after a taxonomy mutation followed by map_to_data(model, series,
\* formations, faults) (called directly, or as the last step of
\* set_values_to_default), every row of both tables has the id and the
\* series the registry gives its formation, the rank of that series and the
\* fault flag of that series.
C2_MapToDataGivesCurrentKeys ==
    ( /\ call.err = "none"
      /\ \/ call.op = "map_to_data" /\ call.arg = <<TRUE, TRUE, TRUE>>
         \/ call.op = "set_values_to_default" /\ call.arg[1] = TRUE )
    => Consistent(model)

\* C2 witness: map_to_data has returned on a model whose formations were
\* reordered and re-numbered, whose series catalog was replaced and which
\* holds rows in both tables.
C2_Witness ==
    /\ call.op = "map_to_data" /\ call.arg = <<TRUE, TRUE, TRUE>> /\ call.err = "none"
    /\ model.series = <<"B", "A">>
    /\ model.interfaces # <<>> /\ model.orientations # <<>>
    /\ \E i \in DOMAIN model.interfaces :
          model.interfaces[i].formation = "f1" /\ model.interfaces[i].id # 1

\* a real call (not a stuttering step) of the named function
Called(op) == call'.op = op /\ call'.n = call.n + 1

\* formations of the table that have exactly one interface point
ThinFormations(m) ==
    {m.interfaces[i].formation : i \in {j \in DOMAIN m.interfaces :
        CountOf(m.interfaces, m.interfaces[j].formation) < 2}}

\* C3: compute_model fails with the insufficient-data error, without
\* invoking the solver, if and only if some formation that has at least one
\* interface point has fewer than 2.
C3_InsufficientDataIffThinFormation ==
    call.op = "compute_model" =>
        ((call.err = "InsufficientDataError" /\ call.solver = 0)
            <=> ThinFormations(model) # {})

\* C4: once the pipeline has reached Solved and a mutator has been applied,
\* compute_model neither invokes the solver nor stores a Solution until
\* set_interpolation_data has rescaled, updated the additional data and
\* sorted again.
C4_NoSolveOnStaleStructure ==
    (call.op = "compute_model" /\ model.was_solved /\ model.dirty)
        => (call.solver = 0 /\ ~call.stored)

\* C5: compute_model replaces the stored Solution atomically: a failing
\* call (insufficient data, solver error) leaves model.solutions as it was
\* and invokes the solver at most once (not at all on insufficient data); a
\* succeeding call invokes it once and stores exactly the output of that
\* invocation on the input built from the model.
C5_SolutionReplacedAtomically ==
    [][ Called("compute_model") =>
          /\ call'.solver <= 1
          /\ call'.err # "none" => model'.solutions = model.solutions
          /\ call'.err = "InsufficientDataError" => call'.solver = 0
          /\ call'.err = "none" =>
                /\ call'.solver = 1
                /\ model'.solutions.values = <<Solve(interpolator_get_input_matrix(model))>>
      ]_vars

\* C5 witness: the solver has failed on a model that held a Solution.
C5_Witness ==
    /\ call.op = "compute_model" /\ call.err = "SolverError" /\ call.solver = 1
    /\ model.solutions.values # <<>>

\* the Solution a reference denotes: the model owns one Solution object
SolutionAt(ref) == IF ref = model.solutions.oid THEN model.solutions.values ELSE <<>>

\* C6: a Solution returned by a solve is an immutable snapshot: after any
\* later solve the Solution returned earlier still holds the outputs of its
\* own solve.
C6_ReturnedSolutionIsSnapshot ==
    earlier # <<>> => SolutionAt(earlier[1].ref) = earlier[1].own

\* C7: after compute_model_at returns or raises, model.grid is the grid the
\* model held before the call.
C7_ComputeModelAtRestoresGrid ==
    [][ Called("compute_model_at") => model'.grid = model.grid ]_vars

FullPipeline ==
    <<"DataLoaded", "Normalized", "StructureValid", "GraphBuilt", "Compiled", "Solved">>

\* C8: set_interpolation_data (compiling) on a model in DataLoaded followed
\* by a compute_model that succeeds passes through DataLoaded, Normalized,
\* StructureValid, GraphBuilt, Compiled, Solved in that order; and the
\* output a solve stores has one value per coordinate of the grid the model
\* holds at the solve (for compute_model_at: per point passed).
C8_PipelineInOrderAndOutputLength ==
    [][ /\ ( /\ call.op = "set_interpolation_data" /\ call.arg = <<TRUE>>
             /\ call.trace[1] = "DataLoaded"
             /\ Called("compute_model") /\ call'.err = "none" )
           => call.trace \o Tail(call'.trace) = FullPipeline
        /\ (Called("compute_model") /\ call'.err = "none")
           => /\ model'.solutions.values[1].n = Len(model.grid.values)
              /\ model'.grid = model.grid
        /\ (Called("compute_model_at") /\ call'.err = "none")
           => /\ model'.solutions.values[1].n = Len(call'.arg[1])
              /\ model'.solutions.values[1].n = Len(model'.grid.values)
      ]_vars

\* C8 witness: two series A, B, three formations with two points each, the
\* 2x2x2 grid: compute_model has entered Solved from Compiled with 8 values.
C8_Witness ==
    /\ call.op = "compute_model" /\ call.err = "none"
    /\ call.trace = <<"Compiled", "Solved">>
    /\ model.series = <<"A", "B">>
    /\ Len(model.interfaces) = 6 /\ ThinFormations(model) = {}
    /\ model.grid.resolution = <<2, 2, 2>>
    /\ model.solutions.values[1].n = 8

\* C9: two compute_model calls with nothing between them build the same
\* solver input and store the same outputs.
C9_ComputeModelDeterministic ==
    [][ ( /\ call.op = "compute_model" /\ call.err = "none"
          /\ Called("compute_model") /\ call'.err = "none" )
        => /\ call'.input = call.input
           /\ model'.solutions.values = model.solutions.values
      ]_vars

\* C9 witness: compute_model has succeeded a second time in a row.
C9_Witness ==
    /\ call.op = "compute_model" /\ call.err = "none"
    /\ call.trace = <<"Solved">>
    /\ earlier # <<>> /\ latest # <<>> /\ earlier[1].own = latest[1].own

\* the index rows of an indices_array that mix formations
MixedRows(m, ia) ==
    {k \in DOMAIN ia.rows : Cardinality(FormsAt(m.interfaces, ia.rows[k])) # 1}

FormationColumn(rows) == [i \in DOMAIN rows |-> rows[i].formation]

\* the formation of each of the first n index rows
FormationsOfRows(m, ia, n) ==
    [k \in 1..n |-> CHOOSE f \in FormsAt(m.interfaces, ia.rows[k]) : TRUE]

\* C10: index sets of one formation each append one orientation
\* row of that formation per set; if any index set mixes formations the
\* call fails with the mixed-formation error and the orientations table is
\* left with exactly the rows it had (nothing appended, also not for the
\* earlier rows of a 2D batch).
C10_MixedAppendsNothing ==
    [][ Called("set_orientation_from_interfaces") =>
          LET ia == call'.arg[1]
          IN IF MixedRows(model, ia) = {}
             THEN FormationColumn(model'.orientations)
                    = FormationColumn(model.orientations)
                        \o FormationsOfRows(model, ia, Len(ia.rows))
             ELSE /\ call'.err = "MixedFormationError"
                  /\ model'.orientations = model.orientations
      ]_vars

\* how often the basement is in the formation registry / the series catalog
BasementsInFormations(m) ==
    Cardinality({i \in DOMAIN m.formations : m.formations[i].name = Basement})

BasementsInSeries(m) == Cardinality({i \in DOMAIN m.series : m.series[i] = Basement})

\* the error a set_values_to_default call with these arguments must hand to
\* its caller: an order naming an unknown formation, rows referencing an
\* unknown formation when the mapping runs, and no error otherwise
ExpectedError(m, arg) ==
    IF arg[3] # None /\ Range(arg[3]) # FormationNamesOf(m.formations)
    THEN "UnknownFormationError"
    ELSE IF arg[1] /\ (Dangling(m.interfaces, m.formations) \/ Dangling(m.orientations, m.formations))
    THEN "DanglingReferenceError"
    ELSE "none"

\* C11: set_values_to_default on a model that already has a basement: the
\* refusal of the second basement is tolerated (it never reaches the
\* caller), formations and series hold no more basements than before, the
\* steps after it still run (the formations are in the order given, the
\* tables are mapped), and every other error (unknown formation in the
\* order, dangling reference in the mapping) reaches the caller.
C11_BasementRefusalToleratedOthersPropagate ==
    [][ ( /\ Called("set_values_to_default")
          /\ BasementsInFormations(model) = 1 )
        => /\ BasementsInFormations(model') = 1
           /\ BasementsInSeries(model') <= 1
           /\ BasementsInSeries(model) = 1 => BasementsInSeries(model') = 1
           /\ call'.err = ExpectedError(model', call'.arg)
           /\ (call'.err = "none" /\ call'.arg[3] # None)
                 => FormationOrder(model') = call'.arg[3]
           /\ (call'.err = "none" /\ call'.arg[1]) => Consistent(model')
      ]_vars

\* C11 witness: set_values_to_default with map_formations_from_series, an
\* order and the mapping has returned normally on a model that held the
\* basement in formations and series; the basement is first in the order.
C11_Witness ==
    /\ call.op = "set_values_to_default" /\ call.err = "none"
    /\ call.arg[1] /\ call.arg[2] /\ call.arg[3] # None
    /\ BasementsInFormations(model) = 1 /\ BasementsInSeries(model) = 1
    /\ model.formations[1].name = Basement
    /\ model.interfaces # <<>>

DanglingRows(m) ==
    Dangling(m.interfaces, m.formations) \/ Dangling(m.orientations, m.formations)

\* the call made is one that runs the mapping from the formations, and
\* nothing before the mapping fails
MapsFromFormations(c) ==
    \/ c.op = "map_to_data" /\ c.arg[2]
    \/ c.op = "set_values_to_default" /\ c.arg[1] /\ c.arg[3] # UnknownOrder
    \/ c.op = "set_series" /\ c.arg[1]

\* the columns of a row that the mappings after the first one derive
LaterColumns(rows) ==
    [i \in DOMAIN rows |->
        <<rows[i].X, rows[i].formation, rows[i].series, rows[i].order_series, rows[i].isFault>>]

\* C12: when a row of either table references a formation that is not in
\* the registry, map_to_data (given the formations), set_values_to_default
\* and set_series (mapping) and init_data fail with the dangling-reference
\* error; no row is dropped, the orientations and the columns derived by
\* the later mappings are as before the call, and the additional data is
\* not updated in that call.
C12_DanglingReferenceHaltsCascade ==
    /\ (call.op = "init_data" /\ DanglingRows(model))
          => call.err = "DanglingReferenceError"
    /\ [][ ( /\ call'.n = call.n + 1
             /\ MapsFromFormations(call')
             /\ DanglingRows(model) )
           => /\ call'.err = "DanglingReferenceError"
              /\ LaterColumns(model'.interfaces) = LaterColumns(model.interfaces)
              /\ model'.orientations = model.orientations
              /\ \A i \in DOMAIN model'.interfaces :
                    model'.interfaces[i].formation \notin FormationNamesOf(model'.formations)
                       => model'.interfaces[i].id = model.interfaces[i].id
              /\ model'.additional_data = model.additional_data
         ]_vars

\* C12 witness: set_series has failed with the dangling-reference error on
\* a model whose additional data an update would have changed.
C12_Witness ==
    /\ call.op = "set_series" /\ call.arg[1]
    /\ call.err = "DanglingReferenceError"
    /\ \E i \in DOMAIN model.interfaces : model.interfaces[i].formation = "fx"
    /\ model.additional_data.len_formations_i # LenFormationsI(model.interfaces)

\* C13: after every call of set_series or set_values_to_default has
\* returned (init_data ends with such a call, followed only by the update
\* of the additional data), the fault relation matrix is indexed by
\* exactly the current series list in its current order, a basement
\* series added in the same call included, and holds no entry outside
\* that index.
C13_FaultMatrixIndexedByCurrentSeries ==
    (call.op \in {"set_series", "set_values_to_default", "init_data"} /\ call.err = "none")
        => /\ model.fault_relations.index = model.series
           /\ \A p \in model.fault_relations.rel :
                 p[1] \in Range(model.series) /\ p[2] \in Range(model.series)

\* a table in the order sort_table gives it
Sorted(rows) == SortTable(rows) = rows

\* C14: when set_series (values_to_default true) returns after a taxonomy
\* edit, the cascade has run in that single call: both tables are mapped
\* against the committed taxonomy, both are sorted by (order_series, id),
\* and the additional data is the one derived from the tables as they are.
C14_SetSeriesRunsWholeCascade ==
    (call.op = "set_series" /\ call.arg[1] /\ call.err = "none")
        => /\ Consistent(model)
           /\ Sorted(model.interfaces) /\ Sorted(model.orientations)
           /\ model.additional_data.len_formations_i = LenFormationsI(model.interfaces)

\* the id the registry fs gives the formation f
IdOf(fs, f) == EntryOf(fs, f).id

\* C15: set_formations(formations_order = p), p an order of the registered
\* formations, followed by set_formations(formations_order = the order the
\* registry had before the first call) gives every formation the id it
\* had before the first call.
C15_FormationOrderRoundTrip ==
    [][ ( /\ call.op = "set_formations" /\ call.err = "none"
          /\ call.arg[2] # None /\ call.arg[3] = NoneArray
          /\ Called("set_formations")
          /\ call'.arg[2] = FormationOrder([formations |-> call.arg[4]])
          /\ call'.arg[3] = NoneArray )
        => /\ call'.err = "none"
           /\ \A i \in DOMAIN call.arg[4] :
                 IdOf(model'.formations, call.arg[4][i].name) = call.arg[4][i].id
      ]_vars

\* C15 witness: the second call has restored the order that the first call
\* had changed in every position.
C15_Witness ==
    /\ call.op = "set_formations" /\ call.err = "none" /\ call.n = 2
    /\ call.arg[2] # None /\ call.arg[3] = NoneArray
    /\ Len(model.formations) = 3
    /\ \A i \in DOMAIN model.formations :
          /\ model.formations[i].name # call.arg[4][i].name
          /\ model.formations[i].id = i
    /\ FormationOrder(model) = <<"f1", "f2", Basement>>

\* the order a set_formations call with these arguments is given
OrderGiven(arg) == IF Truthy(arg[1]) /\ ~Truthy(arg[2]) THEN arg[1] ELSE arg[2]

KeyOf(row) == <<row.order_series, row.id>>

\* ascending by (order_series, id)
Ascending(rows) ==
    \A i, j \in DOMAIN rows :
        i < j => \/ rows[i].order_series < rows[j].order_series
                 \/ /\ rows[i].order_series = rows[j].order_series
                    /\ rows[i].id <= rows[j].id

\* the rows of one key, in the order the table holds them
RowsOfKey(rows, k) == SelectSeq(rows, LAMBDA x : KeyOf(x) = k)

\* after holds the rows of before, those of equal key in the same order
StableRearrangement(before, after) ==
    /\ Len(after) = Len(before)
    /\ \A i \in DOMAIN before :
          RowsOfKey(after, KeyOf(before[i])) = RowsOfKey(before, KeyOf(before[i]))

\* C17: after set_interpolation_data the rows of the interfaces table and
\* of the orientations table are in ascending order of (order_series, id),
\* rows of equal key in the order they had before, and sorting the sorted
\* tables again changes nothing.
C17_TablesSortedStablyAndIdempotently ==
    [][ (Called("set_interpolation_data") /\ call'.err = "none")
        => /\ Ascending(model'.interfaces) /\ Ascending(model'.orientations)
           /\ StableRearrangement(model.interfaces, model'.interfaces)
           /\ StableRearrangement(model.orientations, model'.orientations)
           /\ interfaces_sort_table(Run(model')).m = model'
           /\ orientations_sort_table(Run(model')).m = model'
      ]_vars

\* C17 witness: set_interpolation_data has returned on tables whose rows
\* are no longer in the order they were inserted in (an appended row of
\* each table has moved in front of earlier rows).
C17_Witness ==
    /\ call.op = "set_interpolation_data" /\ call.err = "none"
    /\ \E i, j \in DOMAIN model.interfaces :
          i < j /\ model.interfaces[i].X = 90 /\ KeyOf(model.interfaces[i]) # KeyOf(model.interfaces[j])
    /\ \E i, j \in DOMAIN model.orientations :
          i < j /\ model.orientations[i].X = 35
    /\ \E i, j \in DOMAIN model.interfaces :
          i < j /\ KeyOf(model.interfaces[i]) = KeyOf(model.interfaces[j])

\* C18: set_interpolation_data on a model where some formation has exactly
\* one interface point fails with the insufficient-data error when the
\* structure is derived: the pipeline stays in Normalized and the solver
\* graph is not built, not given shared parameters and not compiled in
\* that call.
C18_ThinFormationBlocksGraph ==
    [][ (Called("set_interpolation_data") /\ ThinFormations(model) # {})
        => /\ call'.err = "InsufficientDataError"
           /\ model'.pipeline = "Normalized"
           /\ model'.interpolator = model.interpolator
      ]_vars

\* step a has run in the call and step b has, a first
Precedes(steps, a, b) ==
    \E i, j \in DOMAIN steps : i < j /\ steps[i] = a /\ steps[j] = b

\* C19: in set_interpolation_data the rescaling precedes the sort of both
\* tables, the sorts precede the derivation of the structure, and the
\* graph is built and the shared parameters are set after all three; in
\* compute_model the input matrix is built before the solver is invoked
\* and the Solution is stored last.
C19_PipelineStepsInOrder ==
    [][ /\ (Called("set_interpolation_data") /\ call'.err = "none")
           => LET steps == call'.steps
              IN /\ Precedes(steps, "rescale", "sort_interfaces")
                 /\ Precedes(steps, "rescale", "sort_orientations")
                 /\ Precedes(steps, "sort_interfaces", "structure")
                 /\ Precedes(steps, "sort_orientations", "structure")
                 /\ Precedes(steps, "structure", "graph")
                 /\ Precedes(steps, "graph", "shared")
        /\ (Called("compute_model") /\ call'.err = "none")
           => LET steps == call'.steps
              IN /\ Precedes(steps, "input", "solver")
                 /\ Precedes(steps, "solver", "store")
                 /\ steps[Len(steps)] = "store"
      ]_vars

\* C20: after a call of set_values_to_default with
\* map_formations_from_series true has returned (directly, or as the step
\* of set_series with values_to_default true), the formation registry
\* holds the basement if and only if the series catalog does, each at most
\* once; in particular after set_series has replaced the catalog of a
\* model whose formations already held the basement.
C20_BasementInFormationsIffInSeries ==
    ( /\ call.err = "none"
      /\ \/ call.op = "set_values_to_default" /\ call.arg[2]
         \/ call.op = "set_series" /\ call.arg[1] )
    => /\ BasementsInFormations(model) = BasementsInSeries(model)
       /\ BasementsInFormations(model) <= 1

\* C21: compute_model invokes only a solver function compiled from the most
\* recently built graph: a compute_model that invokes the solver or stores a
\* Solution is called on a model whose function was compiled after the
\* graph was last built and set (after set_interpolation_data without
\* compiling there is no such function until a compile has happened).
C21_SolvesOnlyWithFunctionOfCurrentGraph ==
    [][ ( /\ Called("compute_model")
          /\ (call'.solver > 0 \/ call'.stored) )
        => model.interpolator.fn_current
      ]_vars

\* C22: get_th_fn returns (the compiled solver function) only when the
\* interpolator has one; on an interpolator whose theano_function is None
\* or that has no such attribute it fails with the assertion error.
C22_GetThFnAssertsCompiled ==
    call.op = "get_th_fn" =>
        call.err = (IF model.interpolator.theano_function = "function"
                    THEN "none" ELSE "AssertionError")

\* C23: set_series with order_formations = L (a permutation of the
\* registered formation names) and values_to_default true: when the call
\* returns, the formations are in the order L with ids 1, 2, ... along L,
\* and the id of every row of both tables is the id of its formation.
C23_SetSeriesOrdersFormationsAsGiven ==
    [][ ( /\ Called("set_series") /\ call'.err = "none"
          /\ call'.arg[1] /\ call'.arg[2] # None
          /\ Range(call'.arg[2]) = Range(FormationOrder(model)) )
        => /\ FormationOrder(model') = call'.arg[2]
           /\ \A i \in DOMAIN model'.formations : model'.formations[i].id = i
           /\ \A i \in DOMAIN model'.interfaces :
                 model'.interfaces[i].id = IdOf(model'.formations, model'.interfaces[i].formation)
           /\ \A i \in DOMAIN model'.orientations :
                 model'.orientations[i].id = IdOf(model'.formations, model'.orientations[i].formation)
      ]_vars

\* C24: a rescaling factor and centers given explicitly through
\* rescale_data stay in effect for the solve: after a set_interpolation_data
\* that follows the rescale_data call directly (no change to points or
\* grid in between), the rescaling of the model and the rescaling
\* parameters of the additional data, which the solver input is built
\* from, are that factor and those centers.
C24_ExplicitRescalingKeptForSolve ==
    [][ ( /\ call.op = "rescale_data" /\ call.err = "none"
          /\ call.arg[1][1] # -1 /\ call.arg[1][2] # -1
          /\ Called("set_interpolation_data") /\ call'.err = "none" )
        => /\ model'.rescaling = [factor |-> call.arg[1][1], centers |-> call.arg[1][2]]
           /\ model'.additional_data.rescaling = model'.rescaling
           /\ interpolator_get_input_matrix(model').additional_data.rescaling
                 = [factor |-> call.arg[1][1], centers |-> call.arg[1][2]]
      ]_vars

====
